---- MODULE Spec2Model ----
(***************************************************************************)
(* Model of scripts/valhalla_build_extract.py: the tile id codec           *)
(* (get_tile_id), the tile count (get_tile_count) and the passes of        *)
(* create_extracts over the primary and the traffic tar archive.           *)
(*                                                                         *)
(* Strings are sequences of one-character strings.  Python integers are    *)
(* unbounded; they are modelled as little-endian two's complement byte     *)
(* vectors of IntBytes bytes, wide enough for every input of the model.    *)
(* A tar archive is a sequence of segments (header blocks, member data,    *)
(* padding) as tarfile of CPython 3.11 lays them out, plus the bytes that  *)
(* the patch pass writes over it from byte BLOCKSIZE on.  Reading an       *)
(* archive follows tarfile header by header: the checksum, the number      *)
(* fields and the member type of each block decide what is listed and      *)
(* whether the reading raises tarfile.ReadError.  The bytes of a header    *)
(* that depend on the file system (mode, owner, time) are not modelled;    *)
(* a header whose reading would depend on them has the outcome Unmodelled, *)
(* and no action is taken from such a state.                               *)
(*                                                                         *)
(* The tile root holds directories and regular files; symbolic links,      *)
(* hard links and special files are left out.  The time stamps and owners  *)
(* of its entries set the length of the pax record tarfile writes for      *)
(* each of them; that length is an input of the model (PaxSizes).  The     *)
(* run is that of the script, where the global traffic_fp of line 160 is   *)
(* defined.                                                                *)
(***************************************************************************)
EXTENDS Integers, Sequences, FiniteSets, TLC

VARIABLES
    path,        \* codec: the argument of get_tile_id
    tile_id,     \* codec: what get_tile_id returned: [exc, val]
    cpc,         \* codec: "input" before the call, "done" after, "idle" when unused
    tiles_fp,    \* the tile root: [kind, entries, stamp]
    do_traffic,  \* the traffic flag
    extract,     \* the primary archive file: [exists, segs, patch]
    traffic,     \* the traffic archive file: [exists, segs, patch]
    extract0,    \* the primary archive file as it was when the run started
    traffic0,    \* the traffic archive file as it was when the run started
    tiles_count, \* create_extracts' tiles_count
    index_fd,    \* create_extracts' in-memory index file: [buf, pos, closed]
    index,       \* create_extracts' index list of (offset, tile id, size)
    pc,          \* position of create_extracts
    exit_code,   \* exit status of the process, -1 while it runs
    exc          \* the exception that ended the run, "none" when there is none

codecVars == <<path, tile_id, cpc>>
runVars == <<tiles_fp, do_traffic, extract, traffic, extract0, traffic0,
             tiles_count, index_fd, index, pc, exit_code, exc>>
vars == <<path, tile_id, cpc, tiles_fp, do_traffic, extract, traffic,
          extract0, traffic0, tiles_count, index_fd, index, pc, exit_code, exc>>

----------------------------------------------------------------------------
(* Bounds *)

\* longest path stem (the part before ".gph") the codec specification draws
MaxStem == 5
\* width in bytes of the vectors that stand for Python integers
IntBytes == 9
\* largest number of entries below the tile root
MaxEntries == 6
\* number of directories named like tiles in the crowded tile root
Crowd == 32
\* the numbers of a header field are followed up to this value
NumCap == 4194304

----------------------------------------------------------------------------
(* Program constants *)

BLOCKSIZE == 512
RECORDSIZE == 10240
\* struct.calcsize('<QLL')
INDEX_BIN_SIZE == 16
\* struct.calcsize('<Q2f16cQ')
GRAPHTILE_SKIP_BYTES == 40
\* struct.calcsize('<2Q4I')
TRAFFIC_HEADER_SIZE == 32
\* struct.calcsize('<Q')
TRAFFIC_SPEED_SIZE == 8
\* ctypes.sizeof(TileHeader)
TILE_HEADER_BYTES == 8
INDEX_FILE == <<"i", "n", "d", "e", "x", ".", "b", "i", "n">>
Ext == <<".", "g", "p", "h">>

ValueError == "ValueError"
StructError == "struct.error"
ReadError == "tarfile.ReadError"
InvalidHeaderError == "tarfile.InvalidHeaderError"
\* stands for the outcome of a read that the model does not decide
Unmodelled == "unmodelled"
\* a function's outcome: the value returned, or the exception raised
Return(v) == [exc |-> "none", val |-> v]
Raise(e) == [exc |-> e, val |-> <<>>]

----------------------------------------------------------------------------
(* Characters *)

Digits == {"0", "1", "2", "3", "4", "5", "6", "7", "8", "9"}

\* ord(c) for the characters the model uses
Ord(c) ==
    CASE c = "-" -> 45 [] c = "." -> 46 [] c = "/" -> 47
      [] c = "0" -> 48 [] c = "1" -> 49 [] c = "2" -> 50 [] c = "3" -> 51
      [] c = "4" -> 52 [] c = "5" -> 53 [] c = "6" -> 54 [] c = "7" -> 55
      [] c = "8" -> 56 [] c = "9" -> 57 [] c = "@" -> 64
      [] c = "H" -> 72 [] c = "P" -> 80
      [] c = "a" -> 97 [] c = "b" -> 98 [] c = "d" -> 100 [] c = "e" -> 101
      [] c = "g" -> 103 [] c = "h" -> 104 [] c = "i" -> 105 [] c = "n" -> 110
      [] c = "p" -> 112 [] c = "r" -> 114 [] c = "t" -> 116 [] c = "x" -> 120

DigitVal(c) == Ord(c) - 48
\* the digit whose value is d
DigitChar(d) == CHOOSE c \in Digits : DigitVal(c) = d

\* s.endswith(suffix)
endswith(s, suffix) ==
    /\ Len(s) >= Len(suffix)
    /\ SubSeq(s, Len(s) - Len(suffix) + 1, Len(s)) = suffix

\* s[:-n]
DropLast(s, n) == IF Len(s) <= n THEN <<>> ELSE SubSeq(s, 1, Len(s) - n)

\* position of the first c in s, 0 when there is none
RECURSIVE FindFrom(_, _, _)
FindFrom(s, c, i) ==
    IF i > Len(s) THEN 0
    ELSE IF s[i] = c THEN i ELSE FindFrom(s, c, i + 1)

\* position of the last c in s, 0 when there is none
RECURSIVE RFindFrom(_, _, _)
RFindFrom(s, c, i) ==
    IF i < 1 THEN 0
    ELSE IF s[i] = c THEN i ELSE RFindFrom(s, c, i - 1)

\* s.replace(c, '')
Remove(s, c) == SelectSeq(s, LAMBDA x : x # c)

----------------------------------------------------------------------------
(* Python integers as two's complement byte vectors, lowest byte first *)

RECURSIVE BitOr(_, _, _)
BitOr(a, b, n) ==
    IF n = 0 THEN 0
    ELSE (IF a % 2 = 1 \/ b % 2 = 1 THEN 1 ELSE 0)
         + 2 * BitOr(a \div 2, b \div 2, n - 1)

\* v * m + c, truncated to the width of v
RECURSIVE MulAddFrom(_, _, _, _)
MulAddFrom(v, m, c, i) ==
    IF i > Len(v) THEN <<>>
    ELSE LET t == v[i] * m + c
         IN  <<t % 256>> \o MulAddFrom(v, m, t \div 256, i + 1)

PyZero == [i \in 1..IntBytes |-> 0]

\* -v
PyNeg(v) == MulAddFrom([i \in 1..IntBytes |-> 255 - v[i]], 1, 1, 1)

\* the value of a string of decimal digits
RECURSIVE PyFromDigits(_, _, _)
PyFromDigits(ds, acc, i) ==
    IF i > Len(ds) THEN acc
    ELSE PyFromDigits(ds, MulAddFrom(acc, 10, DigitVal(ds[i]), 1), i + 1)

\* a | b
PyOr(a, b) == [i \in 1..IntBytes |-> BitOr(a[i], b[i], 8)]

\* a << 3
PyLshift3(a) == MulAddFrom(a, 8, 0, 1)

\* a small natural number as a Python integer
PyFromNat(n) ==
    [i \in 1..IntBytes |->
        CASE i = 1 -> n % 256
          [] i = 2 -> (n \div 256) % 256
          [] i = 3 -> (n \div 65536) % 256
          [] i = 4 -> (n \div 16777216) % 256
          [] OTHER -> 0]

\* int(s) for s over the model's characters: an optional '-' and one or more
\* decimal digits, anything else raises ValueError
IsDigits(s) == Len(s) > 0 /\ \A i \in 1..Len(s) : s[i] \in Digits
PyInt(s) ==
    IF IsDigits(s) THEN Return(PyFromDigits(s, PyZero, 1))
    ELSE IF Len(s) > 1 /\ s[1] = "-" /\ IsDigits(Tail(s))
         THEN Return(PyNeg(PyFromDigits(Tail(s), PyZero, 1)))
         ELSE Raise(ValueError)

----------------------------------------------------------------------------
(* get_tile_id *)

\* get_tile_id without idx.replace('/', '')
get_tile_id_KeepsSeparators(p) ==
    LET stem == DropLast(p, 4)
        k == FindFrom(stem, "/", 1)
    IN  IF k = 0 THEN Raise(ValueError)
        ELSE LET level == PyInt(SubSeq(stem, 1, k - 1))
                 idx == PyInt(SubSeq(stem, k + 1, Len(stem)))
             IN  IF level.exc # "none" \/ idx.exc # "none" THEN Raise(ValueError)
                 ELSE Return(PyOr(level.val, PyLshift3(idx.val)))

get_tile_id(p) ==
    LET stem == DropLast(p, 4)
        k == FindFrom(stem, "/", 1)
    IN  IF k = 0 THEN Raise(ValueError)
        ELSE LET level == PyInt(SubSeq(stem, 1, k - 1))
                 idx == PyInt(Remove(SubSeq(stem, k + 1, Len(stem)), "/"))
             IN  IF level.exc # "none" \/ idx.exc # "none" THEN Raise(ValueError)
                 ELSE Return(PyOr(level.val, PyLshift3(idx.val)))

----------------------------------------------------------------------------
(* The tile root *)

\* n zero bytes
Zeros(n) == [i \in 1..n |-> 0]

\* the 64-bit word of a graph tile header at bytes 40..47, lowest byte first
\*   nodecount 0, directededgecount 5, predictedspeeds_count 0, spare 0
WordEdges5 == <<0, 0, 160, 0, 0, 0, 0, 0>>
\*   nodecount 2^21-1, directededgecount 5, predictedspeeds_count 2^21-1, spare 1
WordEdges5Full == <<255, 255, 191, 0, 0, 252, 255, 255>>
\*   nodecount 0, directededgecount 2^21-1, predictedspeeds_count 0, spare 0
WordEdgesMax == <<0, 0, 224, 255, 255, 3, 0, 0>>

\* a directory 7/<digits>.gph
Level7Dir(ds) == [name |-> <<"7", "/">> \o ds \o Ext, kind |-> "dir", data |-> <<>>]

\* the entries that can exist below the tile root: relative path, kind and,
\* for a file, its contents
Entry(i) ==
    CASE i = 1 -> [name |-> <<"0">>, kind |-> "dir", data |-> <<>>]
      [] i = 2 -> [name |-> <<"0", "/", "1", ".", "g", "p", "h">>, kind |-> "file",
                   data |-> <<97, 98, 99, 100, 101, 102, 103, 104, 105, 106>>]
      [] i = 3 -> [name |-> <<"0", "/", "5", ".", "g", "p", "h">>, kind |-> "dir",
                   data |-> <<>>]
      [] i = 4 -> [name |-> <<"0", "/", "5", "3", "6", "8", "7", "0", "9", "1", "2",
                              ".", "g", "p", "h">>, kind |-> "file",
                   data |-> Zeros(40) \o WordEdgesMax]
      [] i = 5 -> [name |-> <<"0", "/", "7", ".", "g", "p", "h">>, kind |-> "file",
                   data |-> Zeros(40) \o WordEdges5Full \o <<1, 2, 3, 4, 5, 6, 7, 8>>]
      [] i = 6 -> [name |-> <<"a", ".", "g", "p", "h">>, kind |-> "file",
                   data |-> <<1, 2, 3>>]
      [] i = 7 -> [name |-> <<"n", ".", "t", "x", "t">>, kind |-> "file",
                   data |-> <<110, 111>>]
      [] i = 8 -> [name |-> <<"1">>, kind |-> "dir", data |-> <<>>]
      [] i = 9 -> [name |-> <<"1", "/", "0", "0", "2">>, kind |-> "dir", data |-> <<>>]
      [] i = 10 -> [name |-> <<"1", "/", "0", "0", "2", "/", "0", "0", "3",
                               ".", "g", "p", "h">>, kind |-> "file",
                    data |-> Zeros(40) \o <<0, 0, 160, 1>>]
      [] i \in 11..49 -> [name |-> <<"0", "/", DigitChar(i \div 10), DigitChar(i % 10)>> \o Ext,
                          kind |-> "dir", data |-> <<>>]
      [] i = 50 -> [name |-> <<"7">>, kind |-> "dir", data |-> <<>>]
      [] i = 51 -> Level7Dir(<<"0">>)
      [] i = 52 -> Level7Dir(<<"1">>)
      [] i = 53 -> Level7Dir(<<"2">>)
      [] i = 54 -> Level7Dir(<<"3">>)
      [] i = 55 -> Level7Dir(<<"4">>)
      [] i = 56 -> Level7Dir(<<"5">>)
      [] i = 57 -> Level7Dir(<<"6">>)
      [] i = 58 -> Level7Dir(<<"2", "3">>)
      [] i = 59 -> Level7Dir(<<"3", "1">>)
      [] i = 60 -> Level7Dir(<<"7", "2">>)
      [] i = 61 -> Level7Dir(<<"9", "5">>)
      [] i = 62 -> Level7Dir(<<"1", "7">>)
      [] i = 63 -> Level7Dir(<<"2", "9">>)
      [] i = 64 -> Level7Dir(<<"3", "0">>)
      [] i = 65 -> Level7Dir(<<"6", "3">>)
EntryIds == 1..10
\* the entries above EntryIds: directories "0/11.gph", "0/12.gph", ...
CrowdIds == 11..(10 + Crowd)
\* 31 of them: with the tile 0/1.gph their records fill the block of index.bin
FillerIds == 11..41

\* os.path.dirname and os.path.basename of a relative path
Dirname(n) == SubSeq(n, 1, RFindFrom(n, "/", Len(n)) - 1)
Basename(n) == SubSeq(n, RFindFrom(n, "/", Len(n)) + 1, Len(n))

\* every entry of S lies in a directory of S, or directly below the root
IsTree(S) ==
    \A i \in S :
        \/ Dirname(Entry(i).name) = <<>>
        \/ \E j \in S : Entry(j).kind = "dir" /\ Entry(j).name = Dirname(Entry(i).name)

Trees == {S \in SUBSET EntryIds : Cardinality(S) <= MaxEntries /\ IsTree(S)}

\* the entries of a tile root of one tile and many directories whose names
\* end in '.gph'
CrowdedRoot == {1, 2} \cup CrowdIds

\* the entries of tile roots whose records reach into the header block behind
\* index.bin, a pax extended header, and leave the sum of its bytes as it
\* was.  The directories 7/0.gph .. 7/5.gph and 7/72.gph give seven records
\* over the name, the mode and half of the uid: the header stays valid
SumKeepingRoot == {1, 2} \cup FillerIds \cup {50, 51, 52, 53, 54, 55, 56, 60}
\* 7/2.gph .. 7/6.gph, 7/23.gph, 7/31.gph and 7/95.gph give eight records
\* that reach the size field: the header stays valid and its size reads 0
SizeLosingRoot == {1, 2} \cup FillerIds \cup {50, 53, 54, 55, 56, 57, 58, 59, 61}
\* 7/0.gph, 7/1.gph, 7/17.gph, 7/23.gph, 7/29.gph, 7/30.gph, 7/31.gph,
\* 7/63.gph and 7/95.gph give nine records over the whole size field and
\* half of the mtime: they add up to the bytes of a header whose size field
\* reads 00000000034 (28), and of any other whose octal digits add up to
\* the same (21, 35, 42, ...)
SizeCoveredRoot == {1, 2} \cup FillerIds \cup {50, 51, 52, 58, 59, 61, 62, 63, 64, 65}

\* lengths of the pax record tarfile writes for an entry, which go with the
\* entry's time stamp and owner: the record holds str(st_mtime), as in
\* '24 mtime=1700000000.125', and 15 to 18 bytes more for each of st_uid and
\* st_gid that is above 2097151.  The model follows the lengths 21 to 64;
\* tarfile writes shorter ones for time stamps of fewer than 11 characters
PaxSizes == 21..64
\* the time stamps and owners of a tile root: the length of the record of
\* the root itself, and the step by which the length goes up from one entry
\* to the next (0: the entries have time stamps and owners of one length)
PaxSize(stamp, i) ==
    CHOOSE sz \in PaxSizes : (sz - stamp.first - stamp.step * i) % Cardinality(PaxSizes) = 0
\* the stamps every tile root is taken under
Stamps == {[first |-> a, step |-> d] : a \in {22, 28, 43}, d \in {0, 1}}
\* every length of the record of the root itself
RootStamps == {[first |-> a, step |-> 0] : a \in PaxSizes}

\* the tile root when it is not a directory
NoRoot(kind) == [kind |-> kind, entries |-> {}, stamp |-> [first |-> 28, step |-> 0]]

\* the states the tile root can be in: absent, a plain file, a directory tree
\* of up to MaxEntries entries, or one of the roots with many directories,
\* under each of the stamps; the root whose records cover the size field of
\* the header of the root member under every length of that member's record
TileRoots ==
    {NoRoot("missing"), NoRoot("file")}
    \cup {[kind |-> "dir", entries |-> S, stamp |-> st] :
              S \in Trees \cup {CrowdedRoot, SumKeepingRoot, SizeLosingRoot, SizeCoveredRoot},
              st \in Stamps}
    \cup {[kind |-> "dir", entries |-> SizeCoveredRoot, stamp |-> st] : st \in RootStamps}

\* os.walk's `files` over the whole tree: the entries that are not directories
WalkFiles(fp) == {i \in fp.entries : Entry(i).kind # "dir"}

\* get_tile_count counting os.walk's `dirs` as well as its `files`
get_tile_count_CountsDirs(fp) ==
    Cardinality({i \in fp.entries : endswith(Basename(Entry(i).name), Ext)})

get_tile_count(fp) ==
    Cardinality({i \in WalkFiles(fp) : endswith(Basename(Entry(i).name), Ext)})

----------------------------------------------------------------------------
(* Tar archives as tarfile writes and reads them *)

\* the archive segments; a "zeros" segment is len zero bytes
HdrSeg(n, t, sz) ==
    [kind |-> "hdr", name |-> n, type |-> t, size |-> sz, bytes |-> <<>>, len |-> BLOCKSIZE]
\* the pax extended header of a record of sz bytes
PaxHdrSeg(sz) ==
    [kind |-> "paxhdr", name |-> <<".", "/", ".", "/", "@", "P", "a", "x", "H", "e", "a", "d", "e", "r">>,
     type |-> "x", size |-> sz, bytes |-> <<>>, len |-> BLOCKSIZE]
PaxDataSeg ==
    [kind |-> "paxdata", name |-> <<>>, type |-> "x", size |-> 0, bytes |-> <<>>, len |-> BLOCKSIZE]
DataSeg(b) ==
    [kind |-> "data", name |-> <<>>, type |-> "", size |-> 0, bytes |-> b, len |-> Len(b)]
ZeroSeg(n) ==
    [kind |-> "zeros", name |-> <<>>, type |-> "", size |-> 0, bytes |-> <<>>, len |-> n]

\* the bytes that round n up to a multiple of m
PadTo(n, m) == (m - (n % m)) % m

\* the length of the segments lo..hi
RECURSIVE SegsLenIn(_, _, _)
SegsLenIn(segs, lo, hi) ==
    IF lo > hi THEN 0
    ELSE IF lo = hi THEN segs[lo].len
    ELSE SegsLenIn(segs, lo, (lo + hi) \div 2) + SegsLenIn(segs, (lo + hi) \div 2 + 1, hi)
SegsLen(segs) == SegsLenIn(segs, 1, Len(segs))

\* TarFile.addfile with a file object holding b: header block, data, padding
AddFileSegs(n, b) ==
    <<HdrSeg(n, "file", Len(b))>>
    \o (IF Len(b) = 0 THEN <<>> ELSE <<DataSeg(b)>>)
    \o (IF PadTo(Len(b), BLOCKSIZE) = 0 THEN <<>> ELSE <<ZeroSeg(PadTo(Len(b), BLOCKSIZE))>>)

\* TarFile.addfile with b'\0' * n
AddZeroFileSegs(n, sz) ==
    <<HdrSeg(n, "file", sz)>>
    \o (IF sz + PadTo(sz, BLOCKSIZE) = 0 THEN <<>> ELSE <<ZeroSeg(sz + PadTo(sz, BLOCKSIZE))>>)

\* TarFile.add of one file system entry: gettarinfo takes st_mtime, a float,
\* and the pax format then writes an extended header, its record sz bytes
\* long, before the header
AddEntrySegs(n, kind, b, sz) ==
    <<PaxHdrSeg(sz), PaxDataSeg>>
    \o (IF kind = "dir" THEN <<HdrSeg(n, "dir", 0)>> ELSE AddFileSegs(n, b))

\* str comparison
RECURSIVE StrLess(_, _)
StrLess(a, b) ==
    IF b = <<>> THEN FALSE
    ELSE IF a = <<>> THEN TRUE
    ELSE IF Ord(Head(a)) # Ord(Head(b)) THEN Ord(Head(a)) < Ord(Head(b))
    ELSE StrLess(Tail(a), Tail(b))

\* sorted(os.listdir(dir)) as entry ids
Children(S, dir) == {i \in S : Dirname(Entry(i).name) = dir}
RECURSIVE SortedIds(_)
SortedIds(C) ==
    IF C = {} THEN <<>>
    ELSE LET m == CHOOSE i \in C :
                    \A j \in C \ {i} : StrLess(Basename(Entry(i).name), Basename(Entry(j).name))
         IN  <<m>> \o SortedIds(C \ {m})

\* TarFile.add(name, arcname, recursive=True) below the root
RECURSIVE TarAdd(_, _)
RECURSIVE TarAddAll(_, _)
TarAdd(fp, i) ==
    AddEntrySegs(Entry(i).name, Entry(i).kind, Entry(i).data, PaxSize(fp.stamp, i))
    \o (IF Entry(i).kind = "dir"
        THEN TarAddAll(fp, SortedIds(Children(fp.entries, Entry(i).name)))
        ELSE <<>>)
TarAddAll(fp, ids) ==
    IF ids = <<>> THEN <<>> ELSE TarAdd(fp, Head(ids)) \o TarAddAll(fp, Tail(ids))

\* tar.add(str(tiles_fp_), recursive=True, arcname=''): the root itself is
\* added as a directory member with the empty name
TarAddRoot(fp) ==
    AddEntrySegs(<<>>, "dir", <<>>, PaxSize(fp.stamp, 0))
    \o TarAddAll(fp, SortedIds(Children(fp.entries, <<>>)))

\* TarFile.close: two zero blocks, then zeros up to a multiple of RECORDSIZE
CloseSegs(segs) ==
    LET n == SegsLen(segs) + 2 * BLOCKSIZE
    IN  segs \o <<ZeroSeg(2 * BLOCKSIZE + PadTo(n, RECORDSIZE))>>

\* a file on disk: the segments tarfile wrote and the bytes written over them
\* from byte BLOCKSIZE on
NoFile == [exists |-> FALSE, segs |-> <<>>, patch |-> <<>>]
TarFileOf(segs) == [exists |-> TRUE, segs |-> segs, patch |-> <<>>]
\* an archive left by an earlier run
StaleFile == TarFileOf(CloseSegs(AddFileSegs(INDEX_FILE, Zeros(INDEX_BIN_SIZE))))

FileLen(f) ==
    IF SegsLen(f.segs) > BLOCKSIZE + Len(f.patch)
    THEN SegsLen(f.segs) ELSE BLOCKSIZE + Len(f.patch)

\* the byte at which segment i starts
SegStart(segs, i) == SegsLenIn(segs, 1, i - 1)
\* index of the segment among lo..hi that holds the byte pos bytes behind the
\* start of segment lo
RECURSIVE SegAtIn(_, _, _, _)
SegAtIn(segs, pos, lo, hi) ==
    IF lo = hi THEN lo
    ELSE IF pos < SegsLenIn(segs, lo, (lo + hi) \div 2)
         THEN SegAtIn(segs, pos, lo, (lo + hi) \div 2)
         ELSE SegAtIn(segs, pos - SegsLenIn(segs, lo, (lo + hi) \div 2),
                      (lo + hi) \div 2 + 1, hi)
\* index of the segment that holds byte pos, 0 past the end
SegAt(segs, pos) == IF pos >= SegsLen(segs) THEN 0 ELSE SegAtIn(segs, pos, 1, Len(segs))

\* the characters of the model and the bytes that stand for them
Chars == {"-", ".", "/", "0", "1", "2", "3", "4", "5", "6", "7", "8", "9", "@",
          "H", "P", "a", "b", "d", "e", "g", "h", "i", "n", "p", "r", "t", "x"}
\* bytes.decode for bytes that stand for characters of the model
Decode(bs) == [k \in 1..Len(bs) |-> CHOOSE c \in Chars : Ord(c) = bs[k]]
Decodes(bs) == \A k \in 1..Len(bs) : \E c \in Chars : Ord(c) = bs[k]

\* the sum of b[lo..hi]
RECURSIVE RangeSum(_, _, _)
RangeSum(b, lo, hi) ==
    IF lo > hi THEN 0
    ELSE IF lo = hi THEN b[lo]
    ELSE RangeSum(b, lo, (lo + hi) \div 2) + RangeSum(b, (lo + hi) \div 2 + 1, hi)

\* tarfile.calc_chksums of a header block: the bytes before and behind the
\* checksum field (bytes 148..155), which counts as eight spaces, added up
\* as unsigned and as signed chars
calc_chksums(b) ==
    LET s == [k \in 1..BLOCKSIZE |-> IF b[k] > 127 THEN b[k] - 256 ELSE b[k]]
    IN  <<256 + RangeSum(b, 1, 148) + RangeSum(b, 157, BLOCKSIZE),
          256 + RangeSum(s, 1, 148) + RangeSum(s, 157, BLOCKSIZE)>>

\* the octal digit of v that has the weight 8^k, as a character code
OctDigit(v, k) == 48 + ((v \div (8 ^ k)) % 8)

\* byte rel of the pax extended header block tarfile writes, the checksum
\* field left empty: name, mode, uid, gid, size, mtime, type 'x', magic
\* 'ustar' NUL, version '00'; the numbers are octal digits and a NUL
PaxHeaderField(seg, rel) ==
    CASE rel < Len(seg.name) -> Ord(seg.name[rel + 1])
      [] rel \in (100..106) \cup (108..114) \cup (116..122) \cup (136..146) -> 48
      [] rel \in 124..134 -> OctDigit(seg.size, 134 - rel)
      [] rel = 156 -> 120
      [] rel = 257 -> 117
      [] rel = 258 -> 115
      [] rel = 259 -> 116
      [] rel = 260 -> 97
      [] rel = 261 -> 114
      [] rel \in 263..264 -> 48
      [] OTHER -> 0
\* the checksum tarfile stores in it: six octal digits, a NUL and a space
PaxChksum(seg) == calc_chksums([k \in 1..BLOCKSIZE |-> PaxHeaderField(seg, k - 1)])[1]

\* a header byte of the model.  Of a pax extended header every byte is known
\* once the length of its record is.
\* Of the header that names the member the name field is bytes 0..99; the
\* other fields hold metadata of the file system (owner, mode, mtime) that the
\* model leaves open (-1)
NameOnDisk(seg) == IF seg.type = "dir" THEN seg.name \o <<"/">> ELSE seg.name
HeaderByte(seg, rel) ==
    IF seg.kind = "paxhdr"
    THEN IF rel \in 148..153 THEN OctDigit(PaxChksum(seg), 153 - rel)
         ELSE IF rel = 155 THEN 32 ELSE PaxHeaderField(seg, rel)
    ELSE IF rel < Len(NameOnDisk(seg)) THEN Ord(NameOnDisk(seg)[rel + 1])
         ELSE IF rel < 100 THEN 0 ELSE -1

\* the byte tarfile wrote at pos, which segment i holds: the data that goes
\* with a pax extended header holds an mtime the model leaves open (-1)
SegByte(segs, pos, i) ==
    CASE i = 0 -> -1
      [] i # 0 /\ segs[i].kind \in {"hdr", "paxhdr"} ->
             HeaderByte(segs[i], pos - SegStart(segs, i))
      [] i # 0 /\ segs[i].kind = "paxdata" -> -1
      [] i # 0 /\ segs[i].kind = "data" -> segs[i].bytes[pos - SegStart(segs, i) + 1]
      [] i # 0 /\ segs[i].kind = "zeros" -> 0
SegsByte(segs, pos) == SegByte(segs, pos, SegAt(segs, pos))

\* the byte of file f at pos
FileByte(f, pos) ==
    IF pos >= BLOCKSIZE /\ pos < BLOCKSIZE + Len(f.patch)
    THEN f.patch[pos - BLOCKSIZE + 1]
    ELSE SegsByte(f.segs, pos)

\* fileobj.seek(pos); fileobj.read(n)
FileRead(f, pos, n) ==
    LET avail == IF pos >= FileLen(f) THEN 0
                 ELSE IF pos + n > FileLen(f) THEN FileLen(f) - pos ELSE n
    IN  [k \in 1..avail |-> FileByte(f, pos + k - 1)]

\* the number of bytes of the block at pos that lie in the range the patch
\* pass wrote
Covered(f, pos) ==
    LET lo == IF pos > BLOCKSIZE THEN pos ELSE BLOCKSIZE
        hi == IF pos + BLOCKSIZE < BLOCKSIZE + Len(f.patch)
              THEN pos + BLOCKSIZE ELSE BLOCKSIZE + Len(f.patch)
    IN  IF hi > lo THEN hi - lo ELSE 0

----------------------------------------------------------------------------
(* tarfile reading an archive *)

\* v * m + d, cut at NumCap
Shift(v, m, d) == IF v >= NumCap \/ v * m + d > NumCap THEN NumCap ELSE v * m + d

\* tarfile.nts: the bytes before the first NUL, which is at k if there is one
NtsAt(s, k) == IF k = 0 THEN s ELSE SubSeq(s, 1, k - 1)
nts(s) == NtsAt(s, FindFrom(s, 0, 1))

\* str.strip: the white space of str, as far as it is ASCII
IsSpace(b) == b \in {9, 10, 11, 12, 13, 28, 29, 30, 31, 32}
RECURSIVE LStrip(_)
LStrip(t) == IF t # <<>> /\ IsSpace(Head(t)) THEN LStrip(Tail(t)) ELSE t
RECURSIVE RStrip(_)
RStrip(t) == IF t # <<>> /\ IsSpace(t[Len(t)]) THEN RStrip(DropLast(t, 1)) ELSE t

\* the digits of an octal literal: octal digits, single underscores between them
OctBody(u) ==
    /\ u # <<>>
    /\ u[1] \in 48..55
    /\ u[Len(u)] \in 48..55
    /\ \A k \in 1..Len(u) : u[k] \in 48..55 \/ u[k] = 95
    /\ \A k \in 1..(Len(u) - 1) : ~(u[k] = 95 /\ u[k + 1] = 95)
RECURSIVE OctValue(_, _)
OctValue(u, acc) ==
    IF u = <<>> THEN acc
    ELSE OctValue(Tail(u), IF Head(u) = 95 THEN acc ELSE Shift(acc, 8, Head(u) - 48))

\* int(t.strip() or "0", 8): an optional sign, an optional prefix 0o or 0O
\* that an underscore may follow, and the digits; bytes above 127 do not
\* decode as ASCII
IntDigits(neg, body) ==
    IF ~OctBody(body) THEN Raise(InvalidHeaderError)
    ELSE IF neg THEN Return(0 - OctValue(body, 0)) ELSE Return(OctValue(body, 0))
SkipUnderscore(b) == IF b # <<>> /\ b[1] = 95 THEN Tail(b) ELSE b
IntUnsigned(neg, a) ==
    IF Len(a) >= 2 /\ a[1] = 48 /\ a[2] \in {79, 111}
    THEN IntDigits(neg, SkipUnderscore(SubSeq(a, 3, Len(a))))
    ELSE IntDigits(neg, a)
IntStripped(u) ==
    IF u = <<>> THEN Return(0)
    ELSE IF u[1] \in {43, 45} THEN IntUnsigned(u[1] = 45, Tail(u))
    ELSE IntUnsigned(FALSE, u)
IntOctal(t) ==
    IF \E k \in 1..Len(t) : t[k] > 127 THEN Raise(InvalidHeaderError)
    ELSE IntStripped(RStrip(LStrip(t)))

\* the base-256 number of GNU tar in the bytes behind the first one
RECURSIVE Base256(_, _)
Base256(s, acc) == IF s = <<>> THEN acc ELSE Base256(Tail(s), Shift(acc, 256, Head(s)))
\* 256^Len(s) minus that number
RECURSIVE Base256Neg(_, _)
Base256Neg(s, acc) ==
    IF s = <<>> THEN Shift(acc, 1, 1) ELSE Base256Neg(Tail(s), Shift(acc, 256, 255 - Head(s)))

\* tarfile.nti: a number field of a header
nti(s) ==
    IF s[1] = 128 THEN Return(Base256(Tail(s), 0))
    ELSE IF s[1] = 255 THEN Return(0 - Base256Neg(Tail(s), 0))
    ELSE IntOctal(nts(s))

\* what reading a header block gives: "ok" with type, size and name, or the
\* header error, or "unmodelled" for a block the model does not decide
Header(st, t, sz, n) == [st |-> st, type |-> t, size |-> sz, name |-> n]
NoHeader(st) == Header(st, 0, 0, <<>>)

\* name.rstrip("/")
RECURSIVE RStripSlash(_)
RStripSlash(n) == IF n # <<>> /\ n[Len(n)] = "/" THEN RStripSlash(DropLast(n, 1)) ELSE n

\* the type and the name of a member from the type byte, the name field and
\* the prefix field: a regular file of the old format whose name ends in '/'
\* is a directory, a directory loses the slashes at the end of its name, a
\* prefix goes before the name
MemberType(t, n) == IF t = 0 /\ n # <<>> /\ n[Len(n)] = "/" THEN 53 ELSE t
MemberName(t, n, prefix) ==
    LET n1 == IF MemberType(t, n) = 53 THEN RStripSlash(n) ELSE n
        n2 == IF prefix # <<>> THEN prefix \o <<"/">> \o n1 ELSE n1
    IN  IF MemberType(t, n) = 53 THEN RStripSlash(n2) ELSE n2

\* the number fields of a header block: mode, uid, gid, size, mtime, chksum,
\* devmajor, devminor (first and last byte, counted from 1)
NumberFields ==
    {<<101, 108>>, <<109, 116>>, <<117, 124>>, <<125, 136>>, <<137, 148>>,
     <<149, 156>>, <<330, 337>>, <<338, 345>>}

\* the header of type byte t with the size, the name field n and the prefix
\* field.  Extended headers of GNU tar (types L, K, S), global pax headers
\* (type g), negative sizes, sizes from NumCap on and names with bytes that
\* are no characters of the model are left undecided
TypedHeader(t, size, n, prefix) ==
    IF t \in {75, 76, 83, 103} \/ size < 0 \/ size >= NumCap THEN NoHeader("unmodelled")
    ELSE IF t \in {88, 120} THEN Header("ok", t, size, <<>>)
    ELSE IF ~Decodes(n) \/ ~Decodes(prefix) THEN NoHeader("unmodelled")
    ELSE Header("ok", MemberType(t, Decode(n)), size, MemberName(t, Decode(n), Decode(prefix)))

\* TarInfo.frombuf on the bytes b read for a header block: a block of NULs
\* ends the archive; the stored checksum has to be one of the two sums of
\* the block, and every number field has to be a number
ChksumIn(v, sums) == v \in {sums[1], sums[2]}
frombuf(b) ==
    IF Len(b) = 0 THEN NoHeader("empty")
    ELSE IF Len(b) # BLOCKSIZE THEN NoHeader("truncated")
    ELSE IF \A k \in 1..BLOCKSIZE : b[k] = 0 THEN NoHeader("eof")
    ELSE IF \E fld \in NumberFields : nti(SubSeq(b, fld[1], fld[2])).exc # "none"
         THEN NoHeader("invalid")
    ELSE IF ~ChksumIn(nti(SubSeq(b, 149, 156)).val, calc_chksums(b)) THEN NoHeader("invalid")
    ELSE TypedHeader(b[157], nti(SubSeq(b, 125, 136)).val,
                     nts(SubSeq(b, 1, 100)), nts(SubSeq(b, 346, 500)))

\* the type byte tarfile writes for a segment
TypeByte(t) == CASE t = "file" -> 48 [] t = "dir" -> 53 [] t = "x" -> 120

\* the header that names a member (segment seg), the patch pass having
\* written over the first c of the 100 bytes of its name field, which now
\* holds b and held w: the stored checksum is the unsigned sum of the block
\* as tarfile wrote it, and the other bytes of the block are below 128, so
\* that the block has the stored sum exactly when the c bytes add up,
\* unsigned or signed, to what they added up to before
SignedBytes(b) == [k \in 1..Len(b) |-> IF b[k] > 127 THEN b[k] - 256 ELSE b[k]]
PatchedNameHeader(seg, c, b, w) ==
    IF RangeSum(w, 1, c) \notin {RangeSum(b, 1, c), RangeSum(SignedBytes(b), 1, c)}
    THEN NoHeader("invalid")
    ELSE IF ~Decodes(nts(b)) THEN NoHeader("unmodelled")
    ELSE Header("ok", TypeByte(seg.type), seg.size,
                MemberName(TypeByte(seg.type), Decode(nts(b)), <<>>))

\* the segment i of segs, a segment of no kind when i is 0
SegOrNone(segs, i) ==
    IF i = 0 THEN [kind |-> "none", name |-> <<>>, type |-> "", size |-> 0,
                   bytes |-> <<>>, len |-> 0]
    ELSE segs[i]

\* the block of file f at pos, which a header segment seg holds: the bytes
\* the patch pass wrote there, and those of the header elsewhere
PatchedBlock(f, pos, seg) ==
    [k \in 1..BLOCKSIZE |->
        IF pos + k - 1 >= BLOCKSIZE /\ pos + k - 1 < BLOCKSIZE + Len(f.patch)
        THEN f.patch[pos + k - BLOCKSIZE]
        ELSE HeaderByte(seg, k - 1)]

\* the header block of file f at pos, which lies in segment seg, c of its
\* bytes in the range the patch pass wrote.  A block the patch pass did not
\* reach is as tarfile wrote it, a header with the fields of its segment; the
\* data of a pax extended header is no header.  A block whose bytes the model
\* knows goes through frombuf; a block with bytes the model leaves open is
\* decided while the patch stays inside the name field, and is left
\* undecided otherwise
HeaderIn(f, pos, seg, c) ==
    IF c = 0 /\ seg.kind \in {"hdr", "paxhdr"}
    THEN Header("ok", TypeByte(seg.type), seg.size, seg.name)
    ELSE IF c = 0 /\ seg.kind = "paxdata" THEN NoHeader("invalid")
    ELSE IF c < BLOCKSIZE /\ seg.kind = "hdr"
         THEN IF c <= 100
              THEN PatchedNameHeader(seg, c, FileRead(f, pos, 100),
                                     [k \in 1..c |-> SegsByte(f.segs, pos + k - 1)])
              ELSE NoHeader("unmodelled")
    ELSE IF c < BLOCKSIZE /\ seg.kind = "paxdata" THEN NoHeader("unmodelled")
    ELSE IF seg.kind = "paxhdr" THEN frombuf(PatchedBlock(f, pos, seg))
    ELSE frombuf(FileRead(f, pos, BLOCKSIZE))

\* the header block of file f at pos (a multiple of BLOCKSIZE)
ReadHeader(f, pos) ==
    HeaderIn(f, pos, SegOrNone(f.segs, SegAt(f.segs, pos)), Covered(f, pos))

\* TarInfo.isreg, and the types whose data TarInfo._proc_builtin skips: the
\* regular files and every type that is not in SUPPORTED_TYPES
TypeName(t) == IF t \in {0, 48, 55} THEN "file" ELSE IF t = 53 THEN "dir" ELSE "other"
SkipsData(t) == t \notin 49..54

\* TarInfo._block: size rounded up to whole blocks
Block(size) == size + PadTo(size, BLOCKSIZE)

\* the data of a pax extended header, the bytes lo..hi-1 of f, hold no record
\* that takes part in naming the member: a record is 'length keyword=value',
\* and '=' is neither among the bytes the patch pass wrote there nor among
\* file contents there; the data tarfile wrote holds its records, which
\* counts when it is not at the start of the bytes
InPatch(f, p) == p >= BLOCKSIZE /\ p < BLOCKSIZE + Len(f.patch)
PlainSeg(f, lo, hi, seg, s) ==
    /\ (seg.kind = "data" /\ s < hi /\ s + seg.len > lo) =>
           \A k \in 1..seg.len :
               (s + k - 1 >= lo /\ s + k - 1 < hi /\ seg.bytes[k] = 61) => InPatch(f, s + k - 1)
    /\ ~(seg.kind = "paxdata" /\ s > lo /\ s < hi /\ Covered(f, s) = 0)
PaxPlain(f, lo, hi) ==
    /\ \A k \in 1..Len(f.patch) :
           (BLOCKSIZE + k - 1 >= lo /\ BLOCKSIZE + k - 1 < hi) => f.patch[k] # 61
    /\ \A i \in 1..Len(f.segs) : PlainSeg(f, lo, hi, f.segs[i], SegStart(f.segs, i))

\* what TarInfo.fromtarfile gives at pos: "ok" with the member m, the offset
\* next of the header that follows and the position tell of the file, or the
\* header error, "ReadError" or "unmodelled"
Member(n, t, off, od, sz) ==
    [name |-> n, type |-> t, offset |-> off, offset_data |-> od, size |-> sz]
Found(st, m, next, tell) == [st |-> st, m |-> m, next |-> next, tell |-> tell]
NotFound(st) == Found(st, Member(<<>>, "other", 0, 0, 0), 0, 0)

\* TarInfo._proc_builtin
proc_builtin(h, pos) ==
    Found("ok", Member(h.name, TypeName(h.type), pos, pos + BLOCKSIZE, h.size),
          IF SkipsData(h.type) THEN pos + BLOCKSIZE + Block(h.size) ELSE pos + BLOCKSIZE,
          pos + BLOCKSIZE)

RECURSIVE fromtarfile(_, _)

\* the member behind a pax extended header at pos takes the offset of the
\* extended header; a header error there is a SubsequentHeaderError, which
\* TarFile.next turns into ReadError
Subsequent(pos, n) ==
    IF n.st = "unmodelled" THEN n
    ELSE IF n.st # "ok" THEN NotFound("ReadError")
    ELSE [n EXCEPT !.m.offset = pos]

\* TarInfo._proc_pax for the extended header at pos: its data is read up to
\* next (or to the end of the file), the header read there gives the member
proc_pax(f, pos, next) ==
    IF ~PaxPlain(f, pos + BLOCKSIZE, IF next > FileLen(f) THEN FileLen(f) ELSE next)
    THEN NotFound("unmodelled")
    ELSE Subsequent(pos, fromtarfile(f, next))

\* TarInfo._proc_member for the header h read at pos
proc_member(f, pos, h) ==
    IF h.st # "ok" THEN NotFound(h.st)
    ELSE IF h.type \notin {88, 120} THEN proc_builtin(h, pos)
    ELSE proc_pax(f, pos, pos + BLOCKSIZE + Block(h.size))

\* TarInfo.fromtarfile at pos
fromtarfile(f, pos) == proc_member(f, pos, ReadHeader(f, pos))

\* the members of an archive from offset on where nothing was written over
\* what tarfile wrote: one per header (segment j, which starts at s), a
\* member that has a pax extended header starts at that header
TailMember(f, offset, j, s) ==
    Member(f.segs[j].name, f.segs[j].type,
           IF j > 2 /\ f.segs[j - 1].kind = "paxdata" /\ s - 2 * BLOCKSIZE >= offset
           THEN s - 2 * BLOCKSIZE ELSE s,
           s + BLOCKSIZE, f.segs[j].size)
\* those of the segments lo..hi, segment lo starting at s
RECURSIVE TailMembersIn(_, _, _, _, _)
TailMembersIn(f, offset, lo, hi, s) ==
    IF lo > hi THEN <<>>
    ELSE IF lo = hi
         THEN IF f.segs[lo].kind = "hdr" /\ s >= offset
              THEN <<TailMember(f, offset, lo, s)>> ELSE <<>>
    ELSE TailMembersIn(f, offset, lo, (lo + hi) \div 2, s)
         \o TailMembersIn(f, offset, (lo + hi) \div 2 + 1, hi,
                          s + SegsLenIn(f.segs, lo, (lo + hi) \div 2))
TailMembers(f, offset) == TailMembersIn(f, offset, 1, Len(f.segs), 0)

\* from offset on, which segment i holds, the file is as tarfile wrote it,
\* and a header starts there
UntouchedAt(f, offset, i) ==
    /\ f.patch = <<>> \/ offset >= BLOCKSIZE + Len(f.patch)
    /\ i # 0
    /\ f.segs[i].kind \in {"hdr", "paxhdr"}
    /\ SegStart(f.segs, i) = offset
Untouched(f, offset) == UntouchedAt(f, offset, SegAt(f.segs, offset))

RECURSIVE ReadMembers(_, _, _)

\* the list that starts with member m, unless reading the rest raised
Cons(m, rest) == IF rest.exc # "none" THEN rest ELSE Return(<<m>> \o rest.val)

\* TarFile.next having got r at offset: an end-of-archive block ends the
\* list; so does any other header error, except at offset 0, where it is a
\* ReadError; an error in the header behind a pax extended header is a
\* ReadError anywhere
Listed(f, offset, r) ==
    CASE r.st = "ok" -> Cons(r.m, ReadMembers(f, r.next, r.tell))
      [] r.st = "ReadError" -> Raise(ReadError)
      [] r.st = "unmodelled" -> Raise(Unmodelled)
      [] r.st = "eof" -> Return(<<>>)
      [] OTHER -> IF offset = 0 THEN Raise(ReadError) ELSE Return(<<>>)

\* TarFile.next, called until the archive ends: the members from offset on,
\* the file standing at tell.  Past the end of the file there is no data to
\* skip ("unexpected end of data")
ReadMembers(f, offset, tell) ==
    IF Untouched(f, offset) THEN Return(TailMembers(f, offset))
    ELSE IF offset # tell /\ offset - 1 >= FileLen(f) THEN Raise(ReadError)
    ELSE Listed(f, offset, fromtarfile(f, offset))

\* tar.getmembers(): the list of members, or the exception raised
getmembers(f) == ReadMembers(f, 0, 0)

\* the first member, which tarfile.open reads
firstmember(f) == fromtarfile(f, 0).m

\* the members whose name ends in '.gph', none when getmembers raises
GphMembers(f) == SelectSeq(getmembers(f).val, LAMBDA m : endswith(m.name, Ext))

----------------------------------------------------------------------------
(* io.BytesIO *)

BytesIO(b) == [buf |-> b, pos |-> 0, closed |-> FALSE]
FdSeek(fd, pos) == [fd EXCEPT !.pos = pos]
\* the bytes fd.read(n) returns
FdRead(fd, n) ==
    LET last == IF fd.pos + n > Len(fd.buf) THEN Len(fd.buf) ELSE fd.pos + n
    IN  SubSeq(fd.buf, fd.pos + 1, last)
FdAfterRead(fd, n) == [fd EXCEPT !.pos = fd.pos + Len(FdRead(fd, n))]
FdClose(fd) == [fd EXCEPT !.closed = TRUE]

----------------------------------------------------------------------------
(* struct.pack(INDEX_BIN_FORMAT, offset, tile_id, size) *)

\* a pack that cuts the value to the field instead of refusing it
PackUnsigned_Truncates(v, w) == Return(SubSeq(v, 1, w))

\* an unsigned field of w bytes: the value has to lie in 0 .. 2^(8w)-1
PackUnsigned(v, w) ==
    IF \A i \in (w + 1)..IntBytes : v[i] = 0
    THEN Return(SubSeq(v, 1, w)) ELSE Raise(StructError)

\* '<QLL': little-endian, no padding, uint64 uint32 uint32
PackEntry(entry) ==
    LET q == PackUnsigned(PyFromNat(entry[1]), 8)
        l1 == PackUnsigned(entry[2], 4)
        l2 == PackUnsigned(PyFromNat(entry[3]), 4)
    IN  IF q.exc # "none" \/ l1.exc # "none" \/ l2.exc # "none" THEN Raise(StructError)
        ELSE Return(q.val \o l1.val \o l2.val)

\* a patch loop that goes on after an entry struct.pack refuses
RECURSIVE PackedPrefix_SkipsRefused(_)
PackedPrefix_SkipsRefused(entries) ==
    IF entries = <<>> THEN <<>>
    ELSE (IF PackEntry(Head(entries)).exc # "none" THEN <<>> ELSE PackEntry(Head(entries)).val)
         \o PackedPrefix_SkipsRefused(Tail(entries))

\* the bytes the loop of the patch pass writes: the records of the entries
\* before the first one that struct.pack refuses
RECURSIVE PackedPrefix(_)
PackedPrefix(entries) ==
    IF entries = <<>> \/ PackEntry(Head(entries)).exc # "none" THEN <<>>
    ELSE PackEntry(Head(entries)).val \o PackedPrefix(Tail(entries))

AllPack(entries) == \A k \in 1..Len(entries) : PackEntry(entries[k]).exc = "none"

----------------------------------------------------------------------------
(* TileHeader *)

\* bit k of the little-endian word held in bytes b, a missing byte reads 0
WordBit(b, k) == IF (k \div 8) + 1 > Len(b) THEN 0 ELSE (b[(k \div 8) + 1] \div (2 ^ (k % 8))) % 2

\* the bit field of n bits that starts at bit lo
RECURSIVE BitField(_, _, _)
BitField(b, lo, n) ==
    IF n = 0 THEN 0 ELSE WordBit(b, lo) + 2 * BitField(b, lo + 1, n - 1)

\* b.readinto(tile_header): the ctypes bit fields, allocated from the lowest bit
TileHeader(b) ==
    [nodecount_ |-> BitField(b, 0, 21),
     directededgecount_ |-> BitField(b, 21, 21),
     predictedspeeds_count_ |-> BitField(b, 42, 21),
     spare1_ |-> BitField(b, 63, 1)]

----------------------------------------------------------------------------
(* create_extracts *)

\* the index list of the offset recovery pass: one entry per '.gph' member,
\* up to the first member name that get_tile_id refuses
RECURSIVE IndexOf(_)
IndexOf(members) ==
    IF members = <<>> \/ get_tile_id(Head(members).name).exc # "none" THEN <<>>
    ELSE <<<<Head(members).offset_data, get_tile_id(Head(members).name).val,
             Head(members).size>>>> \o IndexOf(Tail(members))

AllDecode(members) ==
    \A k \in 1..Len(members) : get_tile_id(members[k].name).exc = "none"

\* the traffic member of one tile: the header word is read from the primary
\* archive at offset_data + GRAPHTILE_SKIP_BYTES
TrafficTileSize(f, m) ==
    TRAFFIC_HEADER_SIZE + TRAFFIC_SPEED_SIZE
        * TileHeader(FileRead(f, m.offset_data + GRAPHTILE_SKIP_BYTES,
                              TILE_HEADER_BYTES)).directededgecount_
RECURSIVE TrafficTileSegs(_, _)
TrafficTileSegs(f, members) ==
    IF members = <<>> THEN <<>>
    ELSE AddZeroFileSegs(Head(members).name, TrafficTileSize(f, Head(members)))
         \o TrafficTileSegs(f, Tail(members))

index_size == INDEX_BIN_SIZE * tiles_count

\* the placeholder content of the index file: b'0' * n
Placeholder(n) == [i \in 1..n |-> Ord("0")]

Finish(code, e) ==
    /\ pc' = "exit"
    /\ exit_code' = code
    /\ exc' = e

\* lines 76-78: the tile root is missing or is no directory
RootNotFound ==
    /\ pc = "start"
    /\ tiles_fp.kind # "dir"
    /\ Finish(1, "none")
    /\ UNCHANGED <<codecVars, tiles_fp, do_traffic, extract, traffic, extract0,
                   traffic0, tiles_count, index_fd, index>>

\* lines 80-83: the tile root holds no tile
NoUsableTiles ==
    /\ pc = "start"
    /\ tiles_fp.kind = "dir"
    /\ get_tile_count(tiles_fp) = 0
    /\ tiles_count' = 0
    /\ Finish(1, "none")
    /\ UNCHANGED <<codecVars, tiles_fp, do_traffic, extract, traffic, extract0,
                   traffic0, index_fd, index>>

\* lines 80-81: tiles were counted
TilesFound ==
    /\ pc = "start"
    /\ tiles_fp.kind = "dir"
    /\ get_tile_count(tiles_fp) # 0
    /\ tiles_count' = get_tile_count(tiles_fp)
    /\ pc' = "reserve"
    /\ UNCHANGED <<codecVars, tiles_fp, do_traffic, extract, traffic, extract0,
                   traffic0, index_fd, index, exit_code, exc>>

\* lines 86-97: the archive is written anew: the index file with its
\* placeholder content, then the tile root
ReservePass ==
    /\ pc = "reserve"
    /\ LET fd == BytesIO(Placeholder(index_size))
       IN  /\ extract' = TarFileOf(CloseSegs(
                              AddFileSegs(INDEX_FILE, FdRead(fd, index_size))
                              \o TarAddRoot(tiles_fp)))
           /\ index_fd' = FdAfterRead(fd, index_size)
    /\ pc' = "recover"
    /\ UNCHANGED <<codecVars, tiles_fp, do_traffic, traffic, extract0, traffic0,
                   tiles_count, index, exit_code, exc>>

\* lines 100-106: offset, tile id and size of every '.gph' member
RecoverPass ==
    /\ pc = "recover"
    /\ AllDecode(GphMembers(extract))
    /\ index' = IndexOf(GphMembers(extract))
    /\ pc' = "patch"
    /\ UNCHANGED <<codecVars, tiles_fp, do_traffic, extract, traffic, extract0,
                   traffic0, tiles_count, index_fd, exit_code, exc>>

\* line 106: get_tile_id raises on a member name, the run ends there
RecoverFails ==
    /\ pc = "recover"
    /\ ~AllDecode(GphMembers(extract))
    /\ index' = IndexOf(GphMembers(extract))
    /\ Finish(1, ValueError)
    /\ UNCHANGED <<codecVars, tiles_fp, do_traffic, extract, traffic, extract0,
                   traffic0, tiles_count, index_fd>>

\* lines 109-113: the records are written over the archive from BLOCKSIZE on
PatchPass ==
    /\ pc = "patch"
    /\ AllPack(index)
    /\ extract' = [extract EXCEPT !.patch = PackedPrefix(index)]
    /\ pc' = "patched"
    /\ UNCHANGED <<codecVars, tiles_fp, do_traffic, traffic, extract0, traffic0,
                   tiles_count, index_fd, index, exit_code, exc>>

\* line 113: struct.pack raises on an entry; leaving the with block closes
\* the file, which writes out the records packed before
PatchFails ==
    /\ pc = "patch"
    /\ ~AllPack(index)
    /\ extract' = [extract EXCEPT !.patch = PackedPrefix(index)]
    /\ Finish(1, StructError)
    /\ UNCHANGED <<codecVars, tiles_fp, do_traffic, traffic, extract0, traffic0,
                   tiles_count, index_fd, index>>

\* lines 118-120: no traffic extract wanted
ExitNoTraffic ==
    /\ pc = "patched"
    /\ ~do_traffic
    /\ index_fd' = FdClose(index_fd)
    /\ Finish(0, "none")
    /\ UNCHANGED <<codecVars, tiles_fp, do_traffic, extract, traffic, extract0,
                   traffic0, tiles_count, index>>

\* lines 125-160: the traffic archive: the index file from index_fd, then a
\* zero-filled member per '.gph' member that tar_in.getmembers() lists
TrafficPass ==
    /\ pc = "patched"
    /\ do_traffic
    /\ getmembers(extract).exc = "none"
    /\ LET fd == FdSeek(index_fd, 0)
       IN  /\ Len(FdRead(fd, index_size)) = index_size
           /\ traffic' = TarFileOf(CloseSegs(
                              AddFileSegs(INDEX_FILE, FdRead(fd, index_size))
                              \o TrafficTileSegs(extract, GphMembers(extract))))
           /\ index_fd' = FdClose(FdAfterRead(fd, index_size))
    /\ Finish(0, "none")
    /\ UNCHANGED <<codecVars, tiles_fp, do_traffic, extract, extract0, traffic0,
                   tiles_count, index>>

\* lines 125-137: tar_in.getmembers() raises tarfile.ReadError; index.bin is
\* in the traffic archive by then, and leaving the with block on an exception
\* closes the file without the blocks that end an archive
TrafficFails ==
    /\ pc = "patched"
    /\ do_traffic
    /\ getmembers(extract).exc = ReadError
    /\ LET fd == FdSeek(index_fd, 0)
       IN  /\ Len(FdRead(fd, index_size)) = index_size
           /\ traffic' = TarFileOf(AddFileSegs(INDEX_FILE, FdRead(fd, index_size)))
           /\ index_fd' = FdClose(FdAfterRead(fd, index_size))
    /\ Finish(1, ReadError)
    /\ UNCHANGED <<codecVars, tiles_fp, do_traffic, extract, extract0, traffic0,
                   tiles_count, index>>

Init ==
    /\ path = <<>>
    /\ tile_id = Raise("pending")
    /\ cpc = "idle"
    /\ tiles_fp \in TileRoots
    /\ do_traffic \in BOOLEAN
    /\ extract \in {NoFile, StaleFile}
    /\ traffic \in {NoFile, StaleFile}
    /\ extract0 = extract
    /\ traffic0 = traffic
    /\ tiles_count = 0
    /\ index_fd = FdClose(BytesIO(<<>>))
    /\ index = <<>>
    /\ pc = "start"
    /\ exit_code = -1
    /\ exc = "none"

Next ==
    \/ RootNotFound
    \/ NoUsableTiles
    \/ TilesFound
    \/ ReservePass
    \/ RecoverPass
    \/ RecoverFails
    \/ PatchPass
    \/ PatchFails
    \/ ExitNoTraffic
    \/ TrafficPass
    \/ TrafficFails

Spec == Init /\ [][Next]_vars

----------------------------------------------------------------------------
(* get_tile_id on its own *)

Alphabet == {"0", "1", "8", "/", "-", "a"}
Stems == UNION {[1..n -> Alphabet] : n \in 0..MaxStem}

InitCodec ==
    /\ path \in {s \o Ext : s \in Stems}
    /\ tile_id = Raise("pending")
    /\ cpc = "input"
    /\ tiles_fp = NoRoot("missing")
    /\ do_traffic = FALSE
    /\ extract = NoFile
    /\ traffic = NoFile
    /\ extract0 = NoFile
    /\ traffic0 = NoFile
    /\ tiles_count = 0
    /\ index_fd = FdClose(BytesIO(<<>>))
    /\ index = <<>>
    /\ pc = "idle"
    /\ exit_code = -1
    /\ exc = "none"

\* lines 67-71: one call of get_tile_id
Encode ==
    /\ cpc = "input"
    /\ tile_id' = get_tile_id(path)
    /\ cpc' = "done"
    /\ UNCHANGED <<path, runVars>>

NextCodec == Encode

SpecCodec == InitCodec /\ [][NextCodec]_vars

----------------------------------------------------------------------------
(* Vocabulary of the properties *)

\* the number a string of decimal digits denotes (at most 9 digits)
RECURSIVE DecVal(_)
DecVal(ds) == IF ds = <<>> THEN 0 ELSE 10 * DecVal(DropLast(ds, 1)) + DigitVal(ds[Len(ds)])

LevelPart(p) == SubSeq(DropLast(p, 4), 1, FindFrom(DropLast(p, 4), "/", 1) - 1)
RestPart(p) ==
    SubSeq(DropLast(p, 4), FindFrom(DropLast(p, 4), "/", 1) + 1, Len(DropLast(p, 4)))

\* '<level>/<segments>.gph': the level a decimal number in 0..7, the segments
\* non-empty strings of decimal digits separated by '/'
ValidTilePath(p) ==
    /\ endswith(p, Ext)
    /\ FindFrom(DropLast(p, 4), "/", 1) > 0
    /\ IsDigits(LevelPart(p))
    /\ Len(LevelPart(p)) <= 8
    /\ DecVal(LevelPart(p)) \in 0..7
    /\ LET r == RestPart(p)
       IN  /\ r # <<>>
           /\ \A i \in 1..Len(r) : r[i] \in Digits \cup {"/"}
           /\ r[1] # "/" /\ r[Len(r)] # "/"
           /\ \A i \in 1..(Len(r) - 1) : ~(r[i] = "/" /\ r[i + 1] = "/")

PathLevel(p) == DecVal(LevelPart(p))
IndexDigits(p) == Remove(RestPart(p), "/")
PathIndex(p) == DecVal(IndexDigits(p))

\* the natural number a non-negative Python integer below 2^31 stands for
IsSmallNat(v) == v[4] < 128 /\ \A i \in 5..IntBytes : v[i] = 0
NatOf(v) == v[1] + 256 * v[2] + 65536 * v[3] + 16777216 * v[4]

\* the run is over
Ended == pc = "exit"
\* the patch pass ran to its end
PatchCompleted == pc = "patched" \/ (pc = "exit" /\ exit_code = 0)
\* the traffic pass ran to its end
TrafficCompleted == pc = "exit" /\ exit_code = 0 /\ do_traffic

\* the tile files below the tile root: regular files whose name ends in '.gph'
TileFiles == {i \in tiles_fp.entries : Entry(i).kind = "file" /\ endswith(Entry(i).name, Ext)}
\* the entry of the tile root that has the name n
EntryNamed(n) == CHOOSE i \in tiles_fp.entries : Entry(i).name = n
\* the primary archive as the reservation pass wrote it
BeforePatch == [extract EXCEPT !.patch = <<>>]
\* the '.gph' members the offset recovery pass read, before the patch
RecoveredMembers == GphMembers(BeforePatch)
\* the tile files in the order of their members in the primary archive
TileFileMembers ==
    SelectSeq(getmembers(BeforePatch).val, LAMBDA m : m.type = "file" /\ endswith(m.name, Ext))

\* the payload of index.bin in archive f: the data of its first member
IndexPayload(f) == FileRead(f, firstmember(f).offset_data, firstmember(f).size)

\* record k of a payload of '<QLL' records
RecordBytes(b, k) == SubSeq(b, INDEX_BIN_SIZE * (k - 1) + 1, INDEX_BIN_SIZE * k)
RecOffset(r) == NatOf(SubSeq(r, 1, 4)) \* bytes 5..8 are checked to be zero where used
RecOffsetHigh(r) == SubSeq(r, 5, 8)
RecTileId(r) == SubSeq(r, 9, 12)
RecSize(r) == NatOf(SubSeq(r, 13, 16))

\* the identifier level | (index << 3) of a valid tile path, as four bytes
ExpectedIdBytes(p) == SubSeq(PyFromNat(PathLevel(p) + 8 * PathIndex(p)), 1, 4)

----------------------------------------------------------------------------
(* C5 *)

\* C5: for every valid tile path '<level>/<segments>.gph' with level in 0..7,
\* get_tile_id returns an identifier id with id & 7 = level and id >> 3 = the
\* decimal number formed by the concatenated segments.
C5_TileIdEncodesLevelAndIndex ==
    (cpc = "done" /\ ValidTilePath(path)) =>
        /\ tile_id.exc = "none"
        /\ IsSmallNat(tile_id.val)
        /\ NatOf(tile_id.val) % 8 = PathLevel(path)
        /\ NatOf(tile_id.val) \div 8 = PathIndex(path)

\* a valid path of several segments with level and index above zero was encoded
C5_Witness ==
    /\ cpc = "done"
    /\ ValidTilePath(path)
    /\ FindFrom(RestPart(path), "/", 1) > 0
    /\ PathLevel(path) > 0
    /\ PathIndex(path) > 10
    /\ tile_id.exc = "none"

(* C6 *)

\* the paths C6 names: no separator, a level part that is no plain decimal
\* number in 0..7, or a remainder that is empty or not purely decimal digits
\* once the separators are removed
MalformedPath(p) ==
    \/ FindFrom(DropLast(p, 4), "/", 1) = 0
    \/ ~IsDigits(LevelPart(p))
    \/ DecVal(LevelPart(p)) \notin 0..7
    \/ ~IsDigits(IndexDigits(p))

\* C6: get_tile_id fails for every path without a separator, with a level
\* part that is not a plain decimal number in 0..7, or with a remainder that
\* is empty or not purely decimal digits.
C6_MalformedPathFails ==
    (cpc = "done" /\ MalformedPath(path)) => tile_id.exc = ValueError

(* C2 *)

\* the tile root is missing, is no directory, or holds no file whose name
\* ends in '.gph'
NoTilesToFind == tiles_fp.kind # "dir" \/ TileFiles = {}

\* C2: when the tile root does not exist, is not a directory or holds no
\* file ending in '.gph', the run ends with exit code 1 and neither archive
\* is created, opened for writing or modified, whatever the traffic flag.
C2_NoTilesExitsOneAndTouchesNothing ==
    NoTilesToFind =>
        /\ pc \in {"start", "exit"}
        /\ extract = extract0
        /\ traffic = traffic0
        /\ Ended => (exit_code = 1 /\ exc = "none")

\* a run with the traffic flag set ended on a tile root that is a directory
\* whose only '.gph' name is a directory, with archives of an earlier run
C2_Witness ==
    /\ Ended
    /\ tiles_fp.kind = "dir"
    /\ 3 \in tiles_fp.entries
    /\ TileFiles = {}
    /\ do_traffic
    /\ extract0.exists /\ traffic0.exists
    /\ exit_code = 1

(* C1 *)

\* C1: after a run that completes the patch pass on a tile root holding N
\* files whose names end in '.gph', the payload of index.bin holds exactly N
\* records in archive member order, and the size bytes at offset of the
\* primary archive are the contents of the tile file of the record.
C1_IndexRoundTrip ==
    PatchCompleted =>
        LET payload == IndexPayload(extract)
            tiles == TileFileMembers
        IN  /\ Len(payload) = INDEX_BIN_SIZE * Cardinality(TileFiles)
            /\ Len(tiles) = Cardinality(TileFiles)
            /\ \A k \in 1..Len(tiles) :
                   LET r == RecordBytes(payload, k)
                       e == Entry(EntryNamed(tiles[k].name))
                   IN  /\ RecOffsetHigh(r) = <<0, 0, 0, 0>>
                       /\ RecTileId(r) = SubSeq(get_tile_id(e.name).val, 1, 4)
                       /\ RecSize(r) = Len(e.data)
                       /\ FileRead(extract, RecOffset(r), RecSize(r)) = e.data

(* C3 *)

\* C3: in every completed run with the traffic flag set, the payload of
\* index.bin in the traffic archive equals, byte for byte, the final payload
\* of index.bin in the primary archive.
C3_TrafficIndexEqualsPrimaryIndex ==
    TrafficCompleted =>
        /\ firstmember(traffic).name = INDEX_FILE
        /\ IndexPayload(traffic) = IndexPayload(extract)

(* C4 *)

\* C4: the patch pass writes exactly INDEX_BIN_SIZE * tiles_count bytes from
\* byte BLOCKSIZE on: the length of the archive stays the same, every byte
\* outside the payload of index.bin is unchanged, and the archive lists the
\* members it listed before the pass.
C4_PatchStaysInsideIndexPayload ==
    PatchCompleted =>
        /\ Len(extract.patch) = INDEX_BIN_SIZE * tiles_count
        /\ FileLen(extract) = FileLen(BeforePatch)
        /\ \A pos \in BLOCKSIZE..(BLOCKSIZE + Len(extract.patch) - 1) :
               pos >= BLOCKSIZE + firstmember(extract).size
                   => FileByte(extract, pos) = FileByte(BeforePatch, pos)
        /\ getmembers(extract) = getmembers(BeforePatch)

(* C7 *)

\* byte j (from 0) of a tile payload, 0 where the payload has no such byte
PayloadByte(d, j) == IF j < Len(d) THEN d[j + 1] ELSE 0

\* bits 21..41 of the little-endian 64-bit word at bytes 40..47 of payload d
DirectedEdgeCount(d) ==
    (PayloadByte(d, 42) \div 32) + 8 * PayloadByte(d, 43) + 2048 * PayloadByte(d, 44)
        + 524288 * (PayloadByte(d, 45) % 4)

\* the size bytes of f from byte off on are zero bytes that tarfile wrote as
\* member data
AllZeroData(f, off, size) ==
    LET i == SegAt(f.segs, off)
    IN  /\ f.patch = <<>>
        /\ i # 0
        /\ f.segs[i].kind = "zeros"
        /\ SegStart(f.segs, i) = off
        /\ f.segs[i].len >= size

\* C7: in every completed run with the traffic flag set the traffic archive
\* holds, after index.bin, one member per '.gph' member of the primary
\* archive, in the same order and under the same name, of size
\* TRAFFIC_HEADER_SIZE + TRAFFIC_SPEED_SIZE * directedEdgeCount and all
\* zero, directedEdgeCount being bits 21..41 of the word at bytes 40..47 of
\* the tile's payload (bytes the payload does not have count as zero).  The
\* '.gph' members of the primary archive are those the reservation pass
\* wrote, which the offset recovery pass lists.
C7_TrafficMembersSizedByEdgeCount ==
    TrafficCompleted =>
        LET tm == Tail(getmembers(traffic).val)
            pm == RecoveredMembers
        IN  /\ getmembers(traffic).val[1].name = INDEX_FILE
            /\ Len(tm) = Len(pm)
            /\ \A k \in 1..Len(pm) :
                   /\ tm[k].name = pm[k].name
                   /\ tm[k].type = "file"
                   /\ tm[k].size = TRAFFIC_HEADER_SIZE + TRAFFIC_SPEED_SIZE
                          * DirectedEdgeCount(Entry(EntryNamed(pm[k].name)).data)
                   /\ AllZeroData(traffic, tm[k].offset_data, tm[k].size)

(* C8 *)

\* the traffic pass has written the traffic archive
TrafficPassRan == Ended /\ do_traffic /\ traffic.exists /\ traffic # traffic0

\* C8: in the traffic pass a tile whose payload is shorter than 48 bytes
\* makes the run fail with a header decode error, and no traffic member is
\* written for that tile.
C8_ShortTileFailsTrafficPass ==
    TrafficPassRan =>
        \A k \in 1..Len(GphMembers(extract)) :
            GphMembers(extract)[k].size < GRAPHTILE_SKIP_BYTES + TILE_HEADER_BYTES =>
                /\ exc # "none"
                /\ exit_code # 0
                /\ \A j \in 1..Len(getmembers(traffic).val) :
                       getmembers(traffic).val[j].name # GphMembers(extract)[k].name

(* C9 *)

\* the patch pass was entered and is over
PatchPassRan == pc = "patched" \/ (Ended /\ (exit_code = 0 \/ exc \in {StructError, ReadError}))

\* every '.gph' member of the primary archive has a valid tile path
AllPathsValid ==
    LET rm == RecoveredMembers
    IN  \A k \in 1..Len(rm) : ValidTilePath(rm[k].name)

\* the record of entry k of the index list, read back from the archive
StoredRecord(k) == FileRead(extract, BLOCKSIZE + INDEX_BIN_SIZE * (k - 1), INDEX_BIN_SIZE)

\* the tile index of path p is below 2^29 = 536870912, so that
\* level | (index << 3) is below 2^32; decided on the decimal digits
RECURSIVE StripZeros(_)
StripZeros(ds) == IF ds # <<>> /\ Head(ds) = "0" THEN StripZeros(Tail(ds)) ELSE ds
IndexBelow2p29(p) ==
    LET ds == StripZeros(IndexDigits(p))
    IN  \/ Len(ds) < 9
        \/ Len(ds) = 9 /\ StrLess(ds, <<"5", "3", "6", "8", "7", "0", "9", "1", "2">>)

\* the members hold what the tile root gave them: name, size
MemberOfEntry(k) == Entry(EntryNamed(RecoveredMembers[k].name))

\* C9 as stated: for every valid tile path and every tile size the patch
\* pass stores the record without error or loss: the tileId read back from
\* index.bin is level | (tileIndex << 3) and the size is the tile's size.
C9_EveryValidIdFitsTheRecord ==
    (PatchPassRan /\ AllPathsValid) =>
        /\ exc # StructError
        /\ \A k \in 1..Len(RecoveredMembers) :
               /\ Len(StoredRecord(k)) = INDEX_BIN_SIZE
               /\ get_tile_id(RecoveredMembers[k].name).val
                      = [i \in 1..IntBytes |-> IF i <= 4 THEN RecTileId(StoredRecord(k))[i] ELSE 0]
               /\ RecSize(StoredRecord(k)) = Len(MemberOfEntry(k).data)

\* C9 amended: the record is stored without loss when the identifier is
\* below 2^32 (tile index below 2^29); a valid path with a larger index makes
\* struct.pack raise struct.error, which ends the run.
C9_IdBelow2p32FitsTheRecord ==
    (PatchPassRan /\ AllPathsValid) =>
        LET rm == RecoveredMembers
            names == [k \in 1..Len(rm) |-> rm[k].name]
        IN  /\ (\A k \in 1..Len(names) : IndexBelow2p29(names[k])) =>
                   /\ exc # StructError
                   /\ \A k \in 1..Len(names) :
                          /\ RecTileId(StoredRecord(k)) = ExpectedIdBytes(names[k])
                          /\ RecSize(StoredRecord(k)) = Len(Entry(EntryNamed(names[k])).data)
            /\ (\E k \in 1..Len(names) : ~IndexBelow2p29(names[k])) =>
                   /\ exc = StructError
                   /\ exit_code = 1

\* the patch pass stored the records of two tiles, one of them 1/002/003.gph
\* with the identifier 1 | (2003 << 3) = 16025
C9_Witness ==
    /\ PatchPassRan
    /\ AllPathsValid
    /\ exc = "none"
    /\ Len(RecoveredMembers) >= 2
    /\ \E k \in 1..Len(RecoveredMembers) :
           /\ RecoveredMembers[k].name = Entry(10).name
           /\ NatOf(RecTileId(StoredRecord(k))) = 16025
           /\ RecSize(StoredRecord(k)) = 44

(* C10 *)

\* the records of all the entries the offset recovery pass made
RECURSIVE AllRecords(_)
AllRecords(entries) ==
    IF entries = <<>> THEN <<>> ELSE PackEntry(Head(entries)).val \o AllRecords(Tail(entries))

\* the number of entries before the first one struct.pack refuses
RECURSIVE PackableBefore(_)
PackableBefore(entries) ==
    IF entries = <<>> \/ PackEntry(Head(entries)).exc # "none" THEN 0
    ELSE 1 + PackableBefore(Tail(entries))

Min(a, b) == IF a < b THEN a ELSE b

\* the run is over and the reservation pass has written index.bin
EndedAfterReservation == Ended /\ tiles_count > 0

\* C10 as stated: at the end of every run the payload of index.bin is
\* either entirely the placeholder or entirely the final records.
C10_PatchAllOrNothing ==
    EndedAfterReservation =>
        \/ IndexPayload(extract) = Placeholder(index_size)
        \/ /\ AllPack(index)
           /\ Len(AllRecords(index)) >= index_size
           /\ IndexPayload(extract) = SubSeq(AllRecords(index), 1, index_size)

\* C10 amended: at the end of every run the payload of index.bin is the
\* records of the index entries before the first one that cannot be packed,
\* followed by placeholder bytes: none are patched when a member name does
\* not decode, all when every record packs.
C10_PatchedPrefixThenPlaceholder ==
    EndedAfterReservation =>
        LET k == IF exc = ValueError THEN 0 ELSE Min(PackableBefore(index), tiles_count)
            payload == IndexPayload(extract)
        IN  /\ Len(payload) = index_size
            /\ exc = "none" => PackableBefore(index) = Len(index)
            /\ exc = StructError => PackableBefore(index) < Len(index)
            /\ \A j \in 1..tiles_count :
                   RecordBytes(payload, j) =
                       IF j <= k THEN PackEntry(index[j]).val
                       ELSE Placeholder(INDEX_BIN_SIZE)

\* a run ended on struct.error with the first record patched and the last
\* record still placeholder
C10_Witness ==
    /\ EndedAfterReservation
    /\ exc = StructError
    /\ tiles_count >= 3
    /\ RecordBytes(IndexPayload(extract), 1) # Placeholder(INDEX_BIN_SIZE)
    /\ RecordBytes(IndexPayload(extract), tiles_count) = Placeholder(INDEX_BIN_SIZE)

====
